---- MODULE Spec2Model ----
(***************************************************************************)
(* zero-scribe: per-speaker Craig audio tracks, their WhisperX             *)
(* transcriptions, the merged transcript and the whisper model singleton.  *)
(*                                                                         *)
(* Strings are sequences of one-character strings.  A float number of      *)
(* seconds is an integer number of tenths of a second (3661.7 is 36617).   *)
(* An optional value (Python's None or a value v) is <<>> or <<v>>.        *)
(***************************************************************************)
EXTENDS Integers, Sequences, FiniteSets

VARIABLES
    transcriptions,   \* MultiTranscript.transcriptions
    all_segments,     \* save_merged_transcription: all_segments after the first loop
    header_at,        \* positions of all_segments at which the header line was added
    output_file,      \* the file at output_path: <<>> before the write, <<text>> after
    path,             \* CraigAudioFile.path (the file name)
    user_name,        \* CraigAudioFile.user_name: <<>> (None) or <<name>>
    file_error,       \* the exception CraigAudioFile(path=...) ended with, or "none"
    files,            \* what files_path.iterdir() yields, in its order
    audio_files,      \* <<>>, or <<CraigAudioData.audio_files>> once constructed
    data_error,       \* the exception CraigAudioData(...) ended with, or "none"
    model,            \* ml_models.model: <<>> (None) or <<n>>, the n-th model loaded
    load_calls,       \* number of whisperx.load_model calls so far
    unload_calls,     \* number of unloads that released a model
    last_load,        \* what the last load_whisper_model call returned
    run_files,        \* from_craig_data: the tracks of the run in progress
    run_done,         \* from_craig_data: how many tracks are transcribed
    run_active,       \* from_craig_data: a run is in progress
    run_loads         \* whisperx.load_model calls made by the run in progress

vars == <<transcriptions, all_segments, header_at, output_file, path, user_name,
          file_error, files, audio_files, data_error, model, load_calls,
          unload_calls, last_load, run_files, run_done, run_active, run_loads>>

mergeVars == <<transcriptions, all_segments, header_at, output_file>>
fileVars == <<path, user_name, file_error>>
dataVars == <<files, audio_files, data_error>>
modelVars == <<model, load_calls, unload_calls, last_load, run_files, run_done,
               run_active, run_loads>>

(***************************************************************************)
(* Bounds of the model.                                                    *)
(***************************************************************************)
MaxTranscripts == 2
MaxSegments == 3
MaxStemLen == 6
MaxFiles == 2
MaxLoads == 3

(***************************************************************************)
(* Strings.                                                                *)
(***************************************************************************)
Hello == <<"H", "e", "l", "l", "o">>
SpWorld == <<" ", "w", "o", "r", "l", "d">>
Alice == <<"a", "l", "i", "c", "e">>
Bob == <<"b", "o", "b">>
Blank == <<" ">>
HiSp == <<"H", "i", " ">>

Whitespace == {" ", "\t", "\n"}

RECURSIVE lstrip(_)
lstrip(s) ==
    IF s /= <<>> /\ Head(s) \in Whitespace THEN lstrip(Tail(s)) ELSE s

RECURSIVE rstrip(_)
rstrip(s) ==
    IF s /= <<>> /\ s[Len(s)] \in Whitespace
    THEN rstrip(SubSeq(s, 1, Len(s) - 1))
    ELSE s

\* str.strip()
strip(s) == rstrip(lstrip(s))

FirstIndex(s, c) ==
    CHOOSE i \in 1..Len(s) : s[i] = c /\ \A j \in 1..(i - 1) : s[j] /= c

\* str.split(sep) for a separator of one character
RECURSIVE Split(_, _)
Split(s, sep) ==
    IF \A i \in 1..Len(s) : s[i] /= sep THEN <<s>>
    ELSE <<SubSeq(s, 1, FirstIndex(s, sep) - 1)>>
             \o Split(SubSeq(s, FirstIndex(s, sep) + 1, Len(s)), sep)

DigitChar(d) == <<"0", "1", "2", "3", "4", "5", "6", "7", "8", "9">>[d + 1]

\* str(n) of an integer n >= 0
RECURSIVE Decimal(_)
Decimal(n) ==
    IF n < 10 THEN <<DigitChar(n)>> ELSE Append(Decimal(n \div 10), DigitChar(n % 10))

\* the format spec :02 of an integer n >= 0 pads to a width of two, with zeros
Format02(n) == IF n < 10 THEN <<"0">> \o Decimal(n) ELSE Decimal(n)

\* int(x) of a float x >= 0
IntOf(x) == x \div 10

\* x // d and x % d of a float x >= 0 and an integer d > 0
FloorDiv(x, d) == (x \div (d * 10)) * 10
Mod(x, d) == x % (d * 10)

\* variant: seconds without the % 60
SecondsNoMod(start_time) == IntOf(start_time)

\* hours, minutes and seconds of a segment start
Hours(start_time) == IntOf(FloorDiv(start_time, 3600))
Minutes(start_time) == IntOf(FloorDiv(Mod(start_time, 3600), 60))
Seconds(start_time) == IntOf(Mod(start_time, 60))

\* f"{hours:02}:{minutes:02}:{seconds:02}"
start_time_str(start_time) ==
    Format02(Hours(start_time)) \o <<":">> \o Format02(Minutes(start_time))
        \o <<":">> \o Format02(Seconds(start_time))

(***************************************************************************)
(* MultiTranscript.save_merged_transcription                               *)
(***************************************************************************)
\* TranscriptionSegment (end and words are never read by the merge)
Segment(start, text, user) == [start |-> start, text |-> text, user_name |-> user]

\* list.sort(key=lambda x: x.start): one element placed into a sorted list,
\* behind every element whose key is not greater (the sort is stable)
RECURSIVE InsertByStart(_, _)
InsertByStart(sorted, x) ==
    IF sorted = <<>> THEN <<x>>
    ELSE IF sorted[Len(sorted)].start <= x.start THEN Append(sorted, x)
    ELSE Append(InsertByStart(SubSeq(sorted, 1, Len(sorted) - 1), x), sorted[Len(sorted)])

RECURSIVE SortUpTo(_, _)
SortUpTo(s, n) == IF n = 0 THEN <<>> ELSE InsertByStart(SortUpTo(s, n - 1), s[n])

\* variant: the list left as extended
NoSort(s) == s

\* variant: a sort that places an element before the ones of equal start
RECURSIVE InsertBeforeEqual(_, _)
InsertBeforeEqual(sorted, x) ==
    IF sorted = <<>> THEN <<x>>
    ELSE IF sorted[Len(sorted)].start < x.start THEN Append(sorted, x)
    ELSE Append(InsertBeforeEqual(SubSeq(sorted, 1, Len(sorted) - 1), x), sorted[Len(sorted)])

RECURSIVE UnstableUpTo(_, _)
UnstableUpTo(s, n) ==
    IF n = 0 THEN <<>> ELSE InsertBeforeEqual(UnstableUpTo(s, n - 1), s[n])

UnstableSort(s) == UnstableUpTo(s, Len(s))

SortByStart(s) == SortUpTo(s, Len(s))

\* variant: a transcription without segments adds an empty segment of its speaker
RECURSIVE CombineWithPlaceholder(_, _)
CombineWithPlaceholder(ts, n) ==
    IF n = 0 THEN <<>>
    ELSE SortUpTo(CombineWithPlaceholder(ts, n - 1)
                      \o (IF ts[n].segments = <<>>
                          THEN <<Segment(0, <<>>, ts[n].user_name)>>
                          ELSE ts[n].segments),
                  Len(CombineWithPlaceholder(ts, n - 1)) + Len(ts[n].segments)
                      + (IF ts[n].segments = <<>> THEN 1 ELSE 0))

\* the first loop: extend by each transcription's segments, then sort
RECURSIVE CombineSegments(_, _)
CombineSegments(ts, n) ==
    IF n = 0 THEN <<>>
    ELSE SortByStart(CombineSegments(ts, n - 1) \o ts[n].segments)

\* last_speaker = None, full_transcript = ""
WalkStart == [last_speaker |-> <<>>, full_transcript |-> <<>>, header_at |-> <<>>]

\* variant: a header for every segment
HeaderAlways(st, segment) == TRUE

\* segment.user_name != last_speaker
SpeakerChanged(st, segment) == st.last_speaker /= <<segment.user_name>>

\* variant: the blank line before the first header too
SeparatorAlways(st) == <<"\n", "\n">>

\* if last_speaker is not None: full_transcript += "\n\n"
Separator(st) == IF st.last_speaker /= <<>> THEN <<"\n", "\n">> ELSE <<>>

\* f"{segment.user_name} ({start_time_str}):\n"
Header(segment) ==
    segment.user_name \o <<" ", "(">> \o start_time_str(segment.start)
        \o <<")", ":", "\n">>

\* variant: every text stripped
SegmentTextStripped(st, segment) ==
    IF st.last_speaker = <<segment.user_name>>
    THEN <<" ">> \o strip(segment.text)
    ELSE strip(segment.text)

\* the text added for a segment: behind a space for the same speaker, else stripped
SegmentText(st, segment) ==
    IF st.last_speaker = <<segment.user_name>>
    THEN <<" ">> \o segment.text
    ELSE strip(segment.text)

\* one pass of the second loop, for the segment at position k
WalkStep(st, segment, k) ==
    LET changed == SpeakerChanged(st, segment)
        head == IF changed THEN Separator(st) \o Header(segment) ELSE <<>>
    IN  [last_speaker |-> <<segment.user_name>>,
         full_transcript |-> st.full_transcript \o head \o SegmentText(st, segment),
         header_at |-> IF changed THEN Append(st.header_at, k) ELSE st.header_at]

RECURSIVE Walk(_, _)
Walk(segs, n) ==
    IF n = 0 THEN WalkStart ELSE WalkStep(Walk(segs, n - 1), segs[n], n)

\* the text save_merged_transcription writes for the transcriptions ts
MergedTranscript(ts) ==
    LET segs == CombineSegments(ts, Len(ts))
    IN  Walk(segs, Len(segs)).full_transcript

save_merged_transcription ==
    LET segs == CombineSegments(transcriptions, Len(transcriptions))
        walked == Walk(segs, Len(segs))
    IN  /\ all_segments' = segs
        /\ header_at' = walked.header_at
        /\ output_file' = <<walked.full_transcript>>
        /\ UNCHANGED <<transcriptions, fileVars, dataVars, modelVars>>

(***************************************************************************)
(* CraigAudioFile and CraigAudioData                                       *)
(***************************************************************************)
Has(s, c) == \E i \in 1..Len(s) : s[i] = c

LastIndex(s, c) == CHOOSE i \in 1..Len(s) : s[i] = c /\ \A j \in (i + 1)..Len(s) : s[j] /= c

\* the name has a suffix: a last dot that is neither its first nor its last character
HasSuffix(name) ==
    Has(name, ".") /\ 1 < LastIndex(name, ".") /\ LastIndex(name, ".") < Len(name)

\* Path.suffix and Path.stem
suffix(name) ==
    IF HasSuffix(name) THEN SubSeq(name, LastIndex(name, "."), Len(name)) ELSE <<>>

stem(name) ==
    IF HasSuffix(name) THEN SubSeq(name, 1, LastIndex(name, ".") - 1) ELSE name

\* variant: the index [0]
FirstOf(tokens) == tokens[1]

\* the index [1] into the hyphen-delimited tokens
SecondOf(tokens) == tokens[2]

\* variant: a fallback name in place of the error
UnknownUserName(name) ==
    [error |-> "none", user_name |-> <<(<<"u", "n", "k", "n", "o", "w", "n">>)>>]

\* path.stem.split("-")[1].split("_")[0]: the name, or the IndexError of [1]
ParsedUserName(name) ==
    LET tokens == Split(stem(name), "-")
    IN  IF Len(tokens) < 2
        THEN [error |-> "IndexError", user_name |-> <<>>]
        ELSE [error |-> "none", user_name |-> <<Split(SecondOf(tokens), "_")[1]>>]

\* CraigAudioFile(path=path): model_post_init
CraigAudioFile_init ==
    /\ user_name' = ParsedUserName(path).user_name
    /\ file_error' = ParsedUserName(path).error
    /\ UNCHANGED <<path, mergeVars, dataVars, modelVars>>

Wav == <<".", "w", "a", "v">>
Aac == <<".", "a", "a", "c">>
Flac == <<".", "f", "l", "a", "c">>
Txt == <<".", "t", "x", "t">>

valid_extensions == {Aac, Wav, Flac}

\* the files of the listing with a valid extension, in the listing's order
RECURSIVE AudioOf(_, _)
AudioOf(listing, n) ==
    IF n = 0 THEN <<>>
    ELSE IF suffix(listing[n]) \in valid_extensions
         THEN Append(AudioOf(listing, n - 1), listing[n])
         ELSE AudioOf(listing, n - 1)

\* CraigAudioData(files_path=...): model_post_init builds a CraigAudioFile for
\* every audio file; the first one that raises ends the construction
CraigAudioData_init ==
    LET audio == AudioOf(files, Len(files))
        failed == \E i \in 1..Len(audio) : ParsedUserName(audio[i]).error /= "none"
    IN  /\ data_error' = IF failed THEN "IndexError" ELSE "none"
        /\ audio_files' =
              IF failed THEN <<>>
              ELSE <<[i \in 1..Len(audio) |->
                        [path |-> audio[i],
                         user_name |-> ParsedUserName(audio[i]).user_name[1]]]>>
        /\ UNCHANGED <<files, mergeVars, fileVars, modelVars>>

(***************************************************************************)
(* ml_models: the whisper model, and MultiTranscript.from_craig_data       *)
(***************************************************************************)
\* variant: load on every call
LoadAlways(m) == TRUE

\* if model is None
MustLoad(m) == m = <<>>

\* load_whisper_model(): the model held after the call, which it returns
Loaded == IF MustLoad(model) THEN <<load_calls + 1>> ELSE model

LoadStep ==
    /\ MustLoad(model) => load_calls < MaxLoads
    /\ model' = Loaded
    /\ last_load' = Loaded
    /\ load_calls' = IF MustLoad(model) THEN load_calls + 1 ELSE load_calls

load_whisper_model ==
    /\ ~run_active
    /\ LoadStep
    /\ UNCHANGED <<unload_calls, run_files, run_done, run_active, run_loads,
                   mergeVars, fileVars, dataVars>>

unload_whisper_model ==
    /\ ~run_active
    /\ model' = <<>>
    /\ unload_calls' = IF model /= <<>> THEN unload_calls + 1 ELSE unload_calls
    /\ UNCHANGED <<load_calls, last_load, run_files, run_done, run_active, run_loads,
                   mergeVars, fileVars, dataVars>>

\* from_craig_data(craig_dir) is entered: transcriptions = []
from_craig_data_call ==
    /\ ~run_active
    /\ \E n \in 0..MaxFiles : run_files' \in [1..n -> {Alice, Bob}]
    /\ run_active' = TRUE
    /\ run_done' = 0
    /\ run_loads' = 0
    /\ transcriptions' = <<>>
    /\ UNCHANGED <<model, load_calls, unload_calls, last_load, all_segments,
                   header_at, output_file, fileVars, dataVars>>

\* one pass of the loop: from_craig_audio_file loads the model and transcribes;
\* what whisperx returns is any list of segments
from_craig_audio_file ==
    /\ run_active
    /\ run_done < Len(run_files)
    /\ LoadStep
    /\ run_loads' = IF MustLoad(model) THEN run_loads + 1 ELSE run_loads
    /\ \E n \in 0..1 :
          transcriptions' = Append(transcriptions,
              [user_name |-> run_files[run_done + 1],
               segments |-> [k \in 1..n |-> Segment(0, Hello, run_files[run_done + 1])]])
    /\ run_done' = run_done + 1
    /\ UNCHANGED <<unload_calls, run_files, run_active, all_segments, header_at,
                   output_file, fileVars, dataVars>>

\* whisperx raises: the exception ends from_craig_data
from_craig_audio_file_raises ==
    /\ run_active
    /\ run_done < Len(run_files)
    /\ LoadStep
    /\ run_loads' = IF MustLoad(model) THEN run_loads + 1 ELSE run_loads
    /\ run_active' = FALSE
    /\ transcriptions' = <<>>
    /\ UNCHANGED <<unload_calls, run_files, run_done, all_segments, header_at,
                   output_file, fileVars, dataVars>>

\* return cls(transcriptions=transcriptions)
from_craig_data_return ==
    /\ run_active
    /\ run_done = Len(run_files)
    /\ run_active' = FALSE
    /\ UNCHANGED <<model, load_calls, unload_calls, last_load, run_files, run_done,
                   run_loads, mergeVars, fileVars, dataVars>>

(***************************************************************************)
(* The states before any operation.                                        *)
(***************************************************************************)
NoFile == /\ path = <<>>
          /\ user_name = <<>>
          /\ file_error = "none"

NoData == /\ files = <<>>
          /\ audio_files = <<>>
          /\ data_error = "none"

NoModel == /\ model = <<>>
           /\ load_calls = 0
           /\ unload_calls = 0
           /\ last_load = <<>>
           /\ run_files = <<>>
           /\ run_done = 0
           /\ run_active = FALSE
           /\ run_loads = 0

NoMerge == /\ transcriptions = <<>>
           /\ all_segments = <<>>
           /\ header_at = <<>>
           /\ output_file = <<>>

RECURSIVE Sum(_, _)
Sum(f, n) == IF n = 0 THEN 0 ELSE Sum(f, n - 1) + f[n]

\* WhisperXTranscription number i of a list: lens[i] segments, taken in order
\* from the pairs of start and text in flat, each with the user name us[i]
Transcription(i, lens, us, flat) ==
    [user_name |-> us[i],
     segments |-> [k \in 1..lens[i] |->
                      Segment(flat[Sum(lens, i - 1) + k][1],
                              flat[Sum(lens, i - 1) + k][2], us[i])]]

\* a MultiTranscript of at most maxT transcriptions and budget segments
InitMerge(users, starts, texts, maxT, budget) ==
    /\ \E n \in 0..maxT :
          \E lens \in [1..n -> 0..budget] :
              /\ Sum(lens, n) <= budget
              /\ \E us \in [1..n -> users] :
                    \E flat \in [1..Sum(lens, n) -> starts \X texts] :
                        transcriptions =
                            [i \in 1..n |-> Transcription(i, lens, us, flat)]
    /\ all_segments = <<>>
    /\ header_at = <<>>
    /\ output_file = <<>>
    /\ NoFile /\ NoData /\ NoModel

Init == InitMerge({Alice, Bob}, {0, 5, 10}, {Hello}, MaxTranscripts, MaxSegments)

Next == save_merged_transcription

Spec == Init /\ [][Next]_vars

\* two speakers, texts that may be blank
InitBlocks == InitMerge({Alice, Bob}, {0, 10}, {Hello, Blank}, MaxTranscripts, MaxSegments)

SpecBlocks == InitBlocks /\ [][Next]_vars

\* one transcription, texts with spaces at either end
InitRun == InitMerge({Alice}, {0, 10}, {Hello, SpWorld, Blank, HiSp}, 1, MaxSegments)

SpecRun == InitRun /\ [][Next]_vars

\* segment starts (tenths of a second) up to and beyond a hundred hours
TimeStarts ==
    {h * 36000 + m * 600 + sec * 10 + f :
        h \in {0, 1, 23, 24, 100}, m \in {0, 1, 59}, sec \in {0, 1, 59}, f \in {0, 7, 9}}

\* one transcription of one segment
InitTime == InitMerge({Alice}, TimeStarts, {Hello}, 1, 1)

SpecTime == InitTime /\ [][Next]_vars

\* a file name: at most MaxStemLen characters, with or without an extension
RECURSIVE Strings(_, _)
Strings(alphabet, n) ==
    IF n = 0 THEN {<<>>}
    ELSE Strings(alphabet, n - 1)
             \cup {Append(w, c) : w \in Strings(alphabet, n - 1), c \in alphabet}

InitFile ==
    /\ \E w \in Strings({"a", "-", "_"}, MaxStemLen), ext \in {<<>>, Flac} :
          path = w \o ext
    /\ user_name = <<>>
    /\ file_error = "none"
    /\ NoMerge /\ NoData /\ NoModel

NextFile == CraigAudioFile_init

SpecFile == InitFile /\ [][NextFile]_vars

FileNames ==
    {w \o ext :
        w \in {<<"1", "-", "a", "_", "7">>, <<"2", "-", "b">>, <<"a", "b">>,
               <<"3", "-", "a", "-", "b", "_", "7">>},
        ext \in {Wav, Aac, Flac, Txt}}

\* a directory of at most MaxFiles files, listed in any order
InitData ==
    /\ \E n \in 0..MaxFiles :
          /\ files \in [1..n -> FileNames]
          /\ \A i, j \in 1..n : files[i] = files[j] => i = j
    /\ audio_files = <<>>
    /\ data_error = "none"
    /\ NoMerge /\ NoFile /\ NoModel

NextData == CraigAudioData_init

SpecData == InitData /\ [][NextData]_vars

InitModel == NoMerge /\ NoFile /\ NoData /\ NoModel

NextModel ==
    \/ load_whisper_model
    \/ unload_whisper_model
    \/ from_craig_data_call
    \/ from_craig_audio_file
    \/ from_craig_audio_file_raises
    \/ from_craig_data_return

SpecModel == InitModel /\ [][NextModel]_vars

(***************************************************************************)
(* The merged transcript: what the claims are stated with.                 *)
(***************************************************************************)
Saved == output_file /= <<>>
Document == output_file[1]

\* the segments of the transcriptions, in list order
RECURSIVE Flattened(_, _)
Flattened(ts, n) == IF n = 0 THEN <<>> ELSE Flattened(ts, n - 1) \o ts[n].segments

FlatSegments == Flattened(transcriptions, Len(transcriptions))

\* the place of the i-th flattened segment in a stable order by start
StableRank(flat, i) ==
    1 + Cardinality({j \in 1..Len(flat) :
                        \/ flat[j].start < flat[i].start
                        \/ flat[j].start = flat[i].start /\ j < i})

StableOrder(flat) ==
    [k \in 1..Len(flat) |->
        flat[CHOOSE i \in 1..Len(flat) : StableRank(flat, i) = k]]

ListOrders(n) ==
    {p \in [1..n -> 1..n] : \A i, j \in 1..n : p[i] = p[j] => i = j}

Permuted(ts, p) == [i \in 1..Len(ts) |-> ts[p[i]]]

\* two segments of different transcriptions start at the same time
CrossTie(ts) ==
    \E a, b \in 1..Len(ts) :
        /\ a /= b
        /\ \E i \in 1..Len(ts[a].segments), j \in 1..Len(ts[b].segments) :
              ts[a].segments[i].start = ts[b].segments[j].start

SameForEveryOrder ==
    \A p \in ListOrders(Len(transcriptions)) :
        MergedTranscript(Permuted(transcriptions, p)) = Document

\* C1, as stated: the document written is the same for every order of the
\* list of transcriptions.
C1_AnyOrderSameDocument == Saved => SameForEveryOrder

\* C1, amended: when no two segments of different transcriptions start at the
\* same time, the document written is the same for every order of the list of
\* transcriptions.
C1_OrderIrrelevantWithoutTies ==
    (Saved /\ ~CrossTie(transcriptions)) => SameForEveryOrder

C1_Witness ==
    /\ Saved
    /\ Len(transcriptions) = 2
    /\ ~CrossTie(transcriptions)
    /\ transcriptions[1].user_name /= transcriptions[2].user_name
    /\ Len(transcriptions[1].segments) = 2
    /\ Len(transcriptions[2].segments) = 1
    /\ transcriptions[1].segments[1].start > transcriptions[2].segments[1].start
    /\ transcriptions[1].segments[2].start < transcriptions[2].segments[1].start
    /\ all_segments /= FlatSegments
    /\ SameForEveryOrder

\* C2: the segments are walked in the stable order by start of the flattened
\* list: starts never decrease, and segments with the same start keep the
\* order they have in the flattened list.
C2_WalkedInStableOrder ==
    Saved =>
        /\ all_segments = StableOrder(FlatSegments)
        /\ \A k \in 1..(Len(all_segments) - 1) :
              all_segments[k].start <= all_segments[k + 1].start

C2_Witness ==
    /\ Saved
    /\ Len(transcriptions) = 2
    /\ Len(transcriptions[1].segments) = 2
    /\ transcriptions[1].segments[1].start > transcriptions[1].segments[2].start
    /\ Len(transcriptions[2].segments) = 1
    /\ transcriptions[2].segments[1].start = transcriptions[1].segments[2].start
    /\ transcriptions[2].user_name /= transcriptions[1].user_name
    /\ all_segments = <<transcriptions[1].segments[2], transcriptions[2].segments[1],
                         transcriptions[1].segments[1]>>

\* the positions that open a run of segments of one speaker
RunStarts(segs) ==
    {k \in 1..Len(segs) : k = 1 \/ segs[k].user_name /= segs[k - 1].user_name}

RECURSIVE Count(_, _, _)
Count(s, c, n) ==
    IF n = 0 THEN 0 ELSE Count(s, c, n - 1) + (IF s[n] = c THEN 1 ELSE 0)

\* the number of header lines of a document whose names and texts have no "("
HeaderLines(doc) == Count(doc, "(", Len(doc))

\* C4: a header is added exactly at the first segment and at every segment
\* whose speaker differs from the one before it, so the document has as many
\* headers as there are maximal runs of segments of one speaker.
C4_HeaderPerRun ==
    Saved =>
        /\ {header_at[i] : i \in 1..Len(header_at)} = RunStarts(all_segments)
        /\ Len(header_at) = Cardinality(RunStarts(all_segments))
        /\ HeaderLines(Document) = Cardinality(RunStarts(all_segments))

C4_Witness ==
    /\ Saved
    /\ Len(transcriptions) = 1
    /\ Len(transcriptions[1].segments) = 3
    /\ HeaderLines(Document) = 1

TotalSegments == Len(FlatSegments)

RECURSIVE WithoutEmpty(_, _)
WithoutEmpty(ts, n) ==
    IF n = 0 THEN <<>>
    ELSE IF ts[n].segments = <<>> THEN WithoutEmpty(ts, n - 1)
    ELSE Append(WithoutEmpty(ts, n - 1), ts[n])

\* sub occurs in s
Occurs(sub, s) ==
    \E i \in 0..(Len(s) - Len(sub)) : SubSeq(s, i + 1, i + Len(sub)) = sub

\* C7: with no segment at all the document is empty, and a transcription with
\* no segments adds nothing: the document is the one written without it, and
\* a speaker who has no segment is named nowhere in it.
C7_EmptyAddsNothing ==
    Saved =>
        /\ TotalSegments = 0 => Document = <<>>
        /\ Document = MergedTranscript(WithoutEmpty(transcriptions, Len(transcriptions)))
        /\ \A t \in 1..Len(transcriptions) :
              (\A k \in 1..Len(all_segments) :
                  all_segments[k].user_name /= transcriptions[t].user_name)
                  => ~Occurs(transcriptions[t].user_name, Document)

C7_Witness ==
    /\ Saved
    /\ Len(transcriptions) = 2
    /\ TotalSegments = 0
    /\ Document = <<>>

\* the last position of the run of one speaker that opens at k
RECURSIVE RunEnd(_, _)
RunEnd(segs, k) ==
    IF k < Len(segs) /\ segs[k + 1].user_name = segs[k].user_name
    THEN RunEnd(segs, k + 1)
    ELSE k

\* a space and the text as it is, for each of the segments from..to
RECURSIVE Continued(_, _, _)
Continued(segs, from, to) ==
    IF from > to THEN <<>>
    ELSE <<" ">> \o segs[from].text \o Continued(segs, from + 1, to)

\* the text of a speaker block: the first text trimmed, the others continued
BlockText(segs, k) == strip(segs[k].text) \o Continued(segs, k + 1, RunEnd(segs, k))

\* the blocks from position k on, one blank line between two of them
RECURSIVE Blocks(_, _)
Blocks(segs, k) ==
    Header(segs[k]) \o BlockText(segs, k)
        \o (IF RunEnd(segs, k) = Len(segs) THEN <<>>
            ELSE <<"\n", "\n">> \o Blocks(segs, RunEnd(segs, k) + 1))

EndsWithBlankLine(doc) ==
    Len(doc) >= 2 /\ doc[Len(doc)] = "\n" /\ doc[Len(doc) - 1] = "\n"

\* C5: the document is the speaker blocks with exactly the two-newline
\* separator between one block and the next header; it has one newline for
\* each header and two for each separator, and neither starts with a newline
\* nor ends with a blank line.
C5_OneBlankLineBetweenBlocks ==
    (Saved /\ TotalSegments >= 1) =>
        /\ Document = Blocks(all_segments, 1)
        /\ Count(Document, "\n", Len(Document))
              = 3 * Cardinality(RunStarts(all_segments)) - 2
        /\ Document[1] /= "\n"
        /\ ~EndsWithBlankLine(Document)

C5_Witness ==
    /\ Saved
    /\ Len(all_segments) = 3
    /\ all_segments[1].user_name = Alice
    /\ all_segments[2].user_name = Bob
    /\ all_segments[3].user_name = Alice
    /\ Count(Document, "\n", Len(Document)) = 7

\* what follows the first line of the document
AfterHeader(doc) == SubSeq(doc, FirstIndex(doc, "\n") + 1, Len(doc))

HelloThenWorld ==
    /\ Saved
    /\ Len(all_segments) = 2
    /\ all_segments[1].text = Hello
    /\ all_segments[2].text = SpWorld

\* C3, as stated: one speaker's segments "Hello" and " world" are written as
\* "Hello world" after the header.
C3_HelloWorldOneSpace ==
    HelloThenWorld => AfterHeader(Document) = Hello \o <<" ", "w", "o", "r", "l", "d">>

\* C3, amended: the first segment of a speaker block is written trimmed and
\* every further segment of the block as one space followed by its text as it
\* is, so "Hello" and " world" are written as "Hello  world", with two spaces.
C3_TrimThenSpaceAndText ==
    /\ (Saved /\ Len(all_segments) >= 1) =>
          AfterHeader(Document) =
              strip(all_segments[1].text) \o Continued(all_segments, 2, Len(all_segments))
    /\ HelloThenWorld =>
          AfterHeader(Document) = Hello \o <<" ", " ", "w", "o", "r", "l", "d">>

C3_Witness ==
    /\ HelloThenWorld
    /\ AfterHeader(Document) = Hello \o <<" ", " ", "w", "o", "r", "l", "d">>

Digits == {DigitChar(d) : d \in 0..9}

DigitValue(c) == CHOOSE d \in 0..9 : DigitChar(d) = c

\* the number a string of digits denotes
RECURSIVE Number(_, _)
Number(s, n) == IF n = 0 THEN 0 ELSE Number(s, n - 1) * 10 + DigitValue(s[n])

\* the time between the brackets of the first header
TimeField(doc) == Split(SubSeq(doc, FirstIndex(doc, "(") + 1, FirstIndex(doc, ")") - 1), ":")

TwoDigitsOrMore(field) ==
    /\ Len(field) >= 2
    /\ \A i \in 1..Len(field) : field[i] \in Digits
    /\ Len(field) > 2 => field[1] /= "0"

\* C6: the time of a header reads HH:MM:SS, every field of two digits or more
\* (zero-padded), with minutes and seconds below 60, and stands for the whole
\* seconds of the segment's start; hours grow past 24 and past two digits.
C6_HeaderTimeIsFlooredStart ==
    (Saved /\ Len(all_segments) = 1) =>
        LET t == TimeField(Document)
        IN  /\ Len(t) = 3
            /\ \A i \in 1..3 : TwoDigitsOrMore(t[i])
            /\ Number(t[2], Len(t[2])) < 60
            /\ Number(t[3], Len(t[3])) < 60
            /\ Number(t[1], Len(t[1])) * 3600 + Number(t[2], Len(t[2])) * 60
                   + Number(t[3], Len(t[3])) = all_segments[1].start \div 10
            /\ all_segments[1].start = 36617 =>
                   t = <<(<<"0", "1">>), (<<"0", "1">>), (<<"0", "1">>)>>

C6_Witness ==
    /\ Saved
    /\ Len(all_segments) = 1
    /\ all_segments[1].start = 36617
    /\ SubSeq(Document, 1, 17)
           = Alice \o <<" ", "(", "0", "1", ":", "0", "1", ":", "0", "1", ")", ":">>

(***************************************************************************)
(* Audio files and the speaker's name.                                     *)
(***************************************************************************)
FileConstructed == user_name /= <<>> \/ file_error /= "none"

AfterFirst(s, c) == SubSeq(s, FirstIndex(s, c) + 1, Len(s))

BeforeFirst(s, c) == IF Has(s, c) THEN SubSeq(s, 1, FirstIndex(s, c) - 1) ELSE s

\* the part after the first hyphen, up to its first underscore
AfterHyphenBeforeUnderscore(s) == BeforeFirst(AfterFirst(s, "-"), "_")

\* the part between the first hyphen and the next one, up to its first underscore
SecondTokenBeforeUnderscore(s) == BeforeFirst(BeforeFirst(AfterFirst(s, "-"), "-"), "_")

\* C8, as stated: for a stem with a hyphen the speaker is what stands after
\* the first hyphen and before the first underscore of that part.
C8_AfterFirstHyphen ==
    (FileConstructed /\ Has(stem(path), "-")) =>
        user_name = <<AfterHyphenBeforeUnderscore(stem(path))>>

\* C8, amended: for a stem with a hyphen the construction succeeds and the
\* speaker is what stands between the first hyphen and the next hyphen (or the
\* end of the stem), cut before its first underscore if it has one.
C8_SecondHyphenToken ==
    (FileConstructed /\ Has(stem(path), "-")) =>
        /\ file_error = "none"
        /\ user_name = <<SecondTokenBeforeUnderscore(stem(path))>>

C8_Witness ==
    /\ FileConstructed
    /\ path = <<"a", "-", "a", "a", "_", "a">> \o Flac
    /\ user_name = <<(<<"a", "a">>)>>

DataConstructed == audio_files /= <<>> \/ data_error /= "none"

EndsWith(s, e) == Len(s) >= Len(e) /\ SubSeq(s, Len(s) - Len(e) + 1, Len(s)) = e

\* the name without its last dot and what follows it
Unsuffixed(s) == SubSeq(s, 1, LastIndex(s, ".") - 1)

\* the listed files that are audio files
ListedAudio ==
    {i \in 1..Len(files) : \E e \in {Aac, Wav, Flac} : EndsWith(files[i], e)}

\* C9, as stated: the construction fails when the stem of an audio file lacks
\* the hyphen, or the underscore after it.
C9_FailsWithoutHyphenOrUnderscore ==
    DataConstructed =>
        ((\E i \in ListedAudio :
             \/ ~Has(Unsuffixed(files[i]), "-")
             \/ ~Has(AfterFirst(Unsuffixed(files[i]), "-"), "_"))
         => data_error /= "none")

\* C9, amended: the construction fails exactly when the stem of an audio file
\* has no hyphen; otherwise every audio file becomes a track, in the listing's
\* order, named by its own stem and by nothing else.  A stem with a hyphen and
\* no underscore after it does not fail: its track has the whole token.
C9_FailsWithoutHyphen ==
    DataConstructed =>
        /\ data_error /= "none" <=>
               \E i \in ListedAudio : ~Has(Unsuffixed(files[i]), "-")
        /\ data_error /= "none" => audio_files = <<>>
        /\ data_error = "none" =>
               /\ Len(audio_files[1]) = Cardinality(ListedAudio)
               /\ \A k \in 1..Len(audio_files[1]) :
                     \E i \in ListedAudio :
                         /\ Cardinality({j \in ListedAudio : j <= i}) = k
                         /\ audio_files[1][k].path = files[i]
                         /\ audio_files[1][k].user_name
                                = SecondTokenBeforeUnderscore(Unsuffixed(files[i]))

C9_Witness ==
    /\ DataConstructed
    /\ files = <<(<<"1", "-", "a", "_", "7">> \o Wav), (<<"a", "b">> \o Flac)>>
    /\ data_error = "IndexError"
    /\ audio_files = <<>>

(***************************************************************************)
(* The whisper model.                                                      *)
(***************************************************************************)
\* a model is held exactly between a load and the next unload, what a load
\* returned is the model held, and a run has loaded at most once
HeldSinceLastLoad ==
    /\ load_calls = unload_calls + (IF model = <<>> THEN 0 ELSE 1)
    /\ model /= <<>> => last_load = model
    /\ run_loads <= 1

\* the loader runs only when no model is held, and what it returns is held;
\* an unload leaves no model
LoadsOnlyWhenNoneHeld ==
    /\ load_calls' /= load_calls =>
          /\ model = <<>>
          /\ load_calls' = load_calls + 1
          /\ model' = <<load_calls'>>
    /\ last_load' /= last_load => last_load' = model'
    /\ (model /= <<>> /\ model' /= <<>>) => model' = model
    /\ unload_calls' /= unload_calls => model' = <<>>

\* C10: the loader is called only when no model is held, so at most once
\* between two unloads and at most once in a from_craig_data run; every load
\* returns the model held, and after an unload none is held until the next load.
C10_LoadOnce == [](HeldSinceLastLoad) /\ [][LoadsOnlyWhenNoneHeld]_vars

C10_Witness ==
    /\ load_calls = 2
    /\ unload_calls = 1
    /\ run_active
    /\ Len(run_files) = 2
    /\ run_done = 2
    /\ run_loads = 1
    /\ model = <<2>>

====
